---- MODULE Spec2Model ----
(***************************************************************************)
(* lytelog (src/src/lib.rs): a stack of nested terminal tasks, each drawn  *)
(* as one line with a spinner that a background thread (spin) repaints.    *)
(*                                                                         *)
(* State: the TASKS mutex and the Vec<Task> it guards, the SPINNING atomic *)
(* flag, the caller threads inside __start_task__ / __end_task__, the spin *)
(* threads, and the terminal behind stdout (line-buffered writer, screen   *)
(* cells, cursor, saved cursor).  Every print! of the source is one step,  *)
(* so that the interleavings the lock allows or forbids are visible.       *)
(*                                                                         *)
(* Terminal assumptions (spec.md, section 1): an ANSI terminal, tall and   *)
(* wide enough that nothing scrolls or wraps; every glyph is one cell      *)
(* wide.  Colours (SGR) are kept in the byte stream but do not change a    *)
(* cell.  Non-ASCII glyphs are written by name:                            *)
(*   "CHECK" U+2714, "WARN" U+26A0, "CROSS" U+1D569,                       *)
(*   "T_RIGHT" U+2523, "VERT" U+2503, "CORNER" U+2517, "HORIZ" U+2501.     *)
(***************************************************************************)
EXTENDS Integers, Sequences, FiniteSets, TLC

\* ------------------------------------------------------------------ bounds
\* Number of application threads that call the public macros.
NCallers == 2
\* Total number of start!/pass!/warn!/fail! calls the application makes.
MaxCalls == 3

\* ------------------------------------------------------ program constants
\* Indentation step per nesting level (columns).
IndentStep == 5

\* Number of nested tasks one thread begins before it ends them all.
MaxDepth == 3
\* Number of calls of an application that calls from one thread only.
MaxSeqCalls == 4
\* Number of children one thread begins, one after the other, under one parent.
MaxSiblings == 3

Callers == 1..NCallers
\* One slot per spin thread that can exist: a thread is spawned by a
\* __start_task__ call, so there are never more of them than calls.
LoopIds == 1..(MaxCalls + MaxDepth + MaxSeqCalls)

\* Messages the application passes (format!(...) results), as characters.
MsgShort == <<"x">>
MsgLong == <<"a","b","c","d","e","f","g","h">>
Msgs == {MsgShort, MsgLong}
\* The pass!, warn! and fail! calls the application makes: <<macro, message>>.
EndCalls == {<<"pass", MsgShort>>, <<"warn", MsgLong>>, <<"fail", MsgShort>>}

\* The scenario of spec.md section 8.
MsgBuild == <<"b","u","i","l","d">>
MsgCompile == <<"c","o","m","p","i","l","e">>
MsgCompileDone == <<"c","o","m","p","i","l","e"," ","d","o","n","e">>
MsgBuildWarn == <<"b","u","i","l","d"," ","f","i","n","i","s","h","e","d"," ",
                  "w","i","t","h"," ","w","a","r","n","i","n","g","s">>

\* --------------------------------------------------------------- terminal
\* Bytes written to stdout, as terminal commands.
Txt(c) == [op |-> "text", ch |-> c, n |-> 0]
Sgr(code) == [op |-> "sgr", ch |-> code, n |-> 0]
Nl == [op |-> "nl", ch |-> "", n |-> 0]
SaveCursor == [op |-> "save", ch |-> "", n |-> 0]
RestoreCursor == [op |-> "restore", ch |-> "", n |-> 0]
CursorUp(k) == [op |-> "up", ch |-> "", n |-> k]
CursorDown(k) == [op |-> "down", ch |-> "", n |-> k]
CursorLeft(k) == [op |-> "left", ch |-> "", n |-> k]
CursorCol(k) == [op |-> "col", ch |-> "", n |-> k]
EraseEOL == [op |-> "eraseEOL", ch |-> "", n |-> 0]

Text(s) == [i \in 1..Len(s) |-> Txt(s[i])]
Spaces(k) == [i \in 1..k |-> Txt(" ")]

\* Commands that move the cursor other than by printing.
MovementOps == {"save", "restore", "up", "down", "left", "col", "eraseEOL"}

Max(a, b) == IF a >= b THEN a ELSE b

\* The character shown at a cell; a cell never written is blank.
CellAt(screen, r, c) ==
  IF r >= 1 /\ r <= Len(screen) /\ c >= 1 /\ c <= Len(screen[r])
  THEN screen[r][c] ELSE " "

\* A row without its trailing blanks (what the eye sees of it).
Trimmed(line) ==
  LET inked == {i \in 1..Len(line) : line[i] # " "}
  IN IF inked = {} THEN <<>>
     ELSE SubSeq(line, 1, CHOOSE i \in inked : \A j \in inked : j <= i)

RowAt(screen, r) == IF r >= 1 /\ r <= Len(screen) THEN Trimmed(screen[r]) ELSE <<>>

\* The screen with character ch at row r, column c.
PutCh(screen, r, c, ch) ==
  LET rows == Max(Len(screen), r)
      grown == [i \in 1..rows |-> IF i <= Len(screen) THEN screen[i] ELSE <<>>]
      old == grown[r]
      line == [j \in 1..Max(Len(old), c) |->
                 IF j = c THEN ch ELSE IF j <= Len(old) THEN old[j] ELSE " "]
  IN [grown EXCEPT ![r] = Trimmed(line)]

\* CSI K: blank from the cursor to the end of the row.
EraseFrom(screen, r, c) ==
  IF r <= Len(screen) /\ c <= Len(screen[r])
  THEN [screen EXCEPT ![r] = Trimmed(SubSeq(screen[r], 1, c - 1))]
  ELSE screen

\* What the terminal does with one command.
Apply(t, cmd) ==
  CASE cmd.op = "text" ->
         [t EXCEPT !.screen = PutCh(t.screen, t.row, t.col, cmd.ch),
                   !.col = t.col + 1]
    [] cmd.op = "nl" -> [t EXCEPT !.row = t.row + 1, !.col = 1]
    [] cmd.op = "save" -> [t EXCEPT !.srow = t.row, !.scol = t.col]
    [] cmd.op = "restore" -> [t EXCEPT !.row = t.srow, !.col = t.scol]
    [] cmd.op = "up" -> [t EXCEPT !.row = Max(1, t.row - cmd.n)]
    [] cmd.op = "down" -> [t EXCEPT !.row = t.row + cmd.n]
    [] cmd.op = "left" -> [t EXCEPT !.col = Max(1, t.col - cmd.n)]
    [] cmd.op = "col" -> [t EXCEPT !.col = Max(1, cmd.n)]
    [] cmd.op = "eraseEOL" -> [t EXCEPT !.screen = EraseFrom(t.screen, t.row, t.col)]
    [] OTHER -> t

\* What the terminal does with a sequence of commands, in order.  (The
\* singleton set makes TLC compute each intermediate terminal once.)
Run(t, cmds) ==
  LET after[i \in 0..Len(cmds)] ==
        IF i = 0 THEN t
        ELSE CHOOSE r \in {Apply(p, cmds[i]) : p \in {after[i - 1]}} : TRUE
  IN after[Len(cmds)]

\* Index of the last newline of cmds, 0 if none.
LastNl(cmds) ==
  LET nls == {i \in 1..Len(cmds) : cmds[i].op = "nl"}
  IN IF nls = {} THEN 0 ELSE CHOOSE i \in nls : \A j \in nls : j <= i

\* std::io::Stdout is line buffered: a write that holds a newline sends the
\* buffer and the write up to its last newline to the terminal, and keeps the
\* rest; a write without a newline is only buffered.
StdoutWrite(o, cmds) ==
  LET k == LastNl(cmds)
  IN IF k = 0 THEN [term |-> o.term, buf |-> o.buf \o cmds]
     ELSE [term |-> Run(o.term, o.buf \o SubSeq(cmds, 1, k)),
           buf |-> SubSeq(cmds, k + 1, Len(cmds))]

\* io::stdout().flush()
StdoutFlush(o) == [term |-> Run(o.term, o.buf), buf |-> <<>>]

\* The terminal as it will be once the buffered bytes have reached it.
Shown(o) == Run(o.term, o.buf)

\* Cursor cell at which the first printed character of cmds lands when the
\* terminal t receives cmds.
FirstTextCell(t, cmds) ==
  LET texts == {i \in 1..Len(cmds) : cmds[i].op = "text"}
      first == IF texts = {} THEN Len(cmds) + 1
               ELSE CHOOSE i \in texts : \A j \in texts : i <= j
  IN CHOOSE cell \in {<<p.row, p.col>> : p \in {Run(t, SubSeq(cmds, 1, first - 1))}} : TRUE

\* --------------------------------------------- what the code writes (bytes)
\* The symbol argument the pass!/warn!/fail! macros pass to __end_task__.
Symbol(fn) ==
  CASE fn = "pass" -> <<Sgr("32;1"), Txt("CHECK"), Sgr("0")>>
    [] fn = "warn" -> <<Sgr("33;1"), Txt("WARN"), Sgr("0")>>
    [] OTHER -> <<Sgr("31;1"), Txt("CROSS"), Sgr("0")>>

\* The glyph character of an outcome.
Glyph(fn) == Symbol(fn)[2].ch

\* println!() of __start_task__ when tasks are open.
StartNewlineBytesNone == <<>>
StartNewlineBytes == <<Nl>>

\* "\x1b[{}A\x1b[{}G<T_RIGHT>" with last_row - 1 and (tasks.len() - 1) * 5 + 3.
StartBranchBytes(last_row, len) ==
  <<CursorUp(last_row - 1), CursorCol((len - 1) * IndentStep + 3), Txt("T_RIGHT")>>

\* for _ in 1..last_row { print!("\x1b[1D\x1b[1B<VERT>") }
StartVertBytes(last_row) ==
  [i \in 1..(3 * (last_row - 1)) |->
     CASE i % 3 = 1 -> CursorLeft(1)
       [] i % 3 = 2 -> CursorDown(1)
       [] OTHER -> Txt("VERT")]

\* " ".repeat((tasks.len() - 2) * 5 + 2) + "<CORNER><HORIZ> ", len after push.
StartIndentBytes(len) ==
  Spaces((len - 2) * IndentStep + 2) \o <<Txt("CORNER"), Txt("HORIZ"), Txt(" ")>>

\* "\x1b[33;1m-\x1b[0m {message}"
StartMessageBytes(message) ==
  <<Sgr("33;1"), Txt("-"), Sgr("0"), Txt(" ")>> \o Text(message)

\* let column = tasks.len() * 5 + 1, len after the pop.
EndColumnMoved(len) == (len + 1) * IndentStep + 1
EndColumn(len) == len * IndentStep + 1

\* "\x1b[{row}A"
EndUpBytes(row) == <<CursorUp(row)>>

\* "\x1b[{column}G{symbol} \x1b[K{message}"
EndWriteBytes(column, fn, message) ==
  <<CursorCol(column)>> \o Symbol(fn) \o <<Txt(" "), EraseEOL>> \o Text(message)

\* println!("{symbol} {message}") of an end call that finds no task.
EndPlainBytesSaving(fn, message) ==
  <<SaveCursor>> \o Symbol(fn) \o <<Txt(" ")>> \o Text(message) \o <<Nl>>
EndPlainBytes(fn, message) == Symbol(fn) \o <<Txt(" ")>> \o Text(message) \o <<Nl>>

\* "\x1b[{row}A " of spin: the literal ends in a blank, which is printed.
SpinUpBytesShort(row) == <<CursorUp(row - 1), Txt(" ")>>
SpinUpBytes(row) == <<CursorUp(row), Txt(" ")>>

\* "\x1b[{column}G\x1b[33;1m{spinner}\x1b[0m\x1b[u"
SpinPaintBytes(column, spinner) ==
  <<CursorCol(column), Sgr("33;1"), Txt(spinner), Sgr("0"), RestoreCursor>>

\* The match on spinner: clockwise.
NextSpinner(spinner) ==
  CASE spinner = "-" -> "\\"
    [] spinner = "\\" -> "|"
    [] spinner = "|" -> "/"
    [] spinner = "/" -> "-"
    [] OTHER -> "-"

\* ------------------------------------------------------------------ state
VARIABLES
  tasks,     \* TASKS: the Vec<Task> behind the mutex, outermost first
  SPINNING,  \* SPINNING: the atomic flag
  lock,      \* the thread holding the TASKS mutex, or Free
  pc,        \* where each caller thread is in __start_task__ / __end_task__
  call,      \* the call each caller is making: [fn, message]
  local,     \* its locals: last_row (start), row and column (end)
  loops,     \* the spin threads: [pc, spinner, column, i]
  out,       \* stdout: [term |-> the terminal, buf |-> bytes not yet sent]
  emitted,   \* the bytes of the latest write by the thread holding the lock
  writer,    \* the thread that wrote last
  nBegin,    \* number of __start_task__ calls made
  nEnd,      \* number of __end_task__ calls made
  nPlain,    \* number of __end_task__ calls that found no task
  marks,     \* per open task, the cell where its "-" marker was printed
  ended      \* the end call in progress: marker cell of the popped task, glyph cell

vars == <<tasks, SPINNING, lock, pc, call, local, loops, out, emitted, writer,
          nBegin, nEnd, nPlain, marks, ended>>

Caller(t) == <<"caller", t>>
Spinner(k) == <<"spin", k>>
Free == <<"none", 0>>

NoCall == [fn |-> "none", message |-> <<>>]
NoLocal == [last_row |-> -1, row |-> -1, column |-> 0]
\* "before" remembers the terminal as it was when the running tick began.
NoTerm == [screen |-> <<>>, row |-> 0, col |-> 0, srow |-> 0, scol |-> 0]
NoLoop == [pc |-> "none", spinner |-> "-", column |-> 0, i |-> 0, before |-> NoTerm]
NoCell == <<0, 0>>
NoEnded == [mark |-> NoCell, glyph |-> NoCell]

\* static TASKS = Mutex::new(Vec::new()); static SPINNING = AtomicBool::new(false);
\* the terminal is blank with the cursor at the start of a row.
Init ==
  /\ tasks = <<>>
  /\ SPINNING = FALSE
  /\ lock = Free
  /\ pc = [t \in Callers |-> "idle"]
  /\ call = [t \in Callers |-> NoCall]
  /\ local = [t \in Callers |-> NoLocal]
  /\ loops = [k \in LoopIds |-> NoLoop]
  /\ out = [term |-> [screen |-> <<>>, row |-> 1, col |-> 1, srow |-> 1, scol |-> 1],
            buf |-> <<>>]
  /\ emitted = <<>>
  /\ writer = Free
  /\ nBegin = 0
  /\ nEnd = 0
  /\ nPlain = 0
  /\ marks = <<>>
  /\ ended = NoEnded

\* A spin thread exists from thread::spawn(spin) until it has run its last
\* statement, SPINNING.store(false).
Alive(k) == loops[k].pc # "none"
AliveLoops == {k \in LoopIds : Alive(k)}

\* TASKS.lock(): blocks until the mutex is free.
Acquire(th) == lock = Free /\ lock' = th
\* The guard is dropped.
Release == lock' = Free

\* A print! by thread th.
Write(th, cmds) ==
  /\ out' = StdoutWrite(out, cmds)
  /\ emitted' = cmds
  /\ writer' = th

Quiet == /\ emitted' = <<>>
         /\ writer' = Free

callerGhost == <<nBegin, nEnd, nPlain>>

\* ------------------------------------------------------- the application
\* A thread of the application calls start!, pass!, warn! or fail!.
CallStart(t, message) ==
  /\ pc[t] = "idle"
  /\ pc' = [pc EXCEPT ![t] = "start_lock"]
  /\ call' = [call EXCEPT ![t] = [fn |-> "start", message |-> message]]
  /\ nBegin' = nBegin + 1
  /\ UNCHANGED <<tasks, SPINNING, lock, local, loops, out, emitted, writer,
                 nEnd, nPlain, marks, ended>>

CallEnd(t, fn, message) ==
  /\ pc[t] = "idle"
  /\ pc' = [pc EXCEPT ![t] = "end_lock"]
  /\ call' = [call EXCEPT ![t] = [fn |-> fn, message |-> message]]
  /\ nEnd' = nEnd + 1
  /\ UNCHANGED <<tasks, SPINNING, lock, local, loops, out, emitted, writer,
                 nBegin, nPlain, marks, ended>>

\* ------------------------------------------------------- __start_task__
\* let mut tasks = TASKS.lock().unwrap();
StartLockSkipped(t) ==
  /\ pc[t] = "start_lock"
  /\ pc' = [pc EXCEPT ![t] = "start_shift"]
  /\ UNCHANGED <<tasks, SPINNING, lock, call, local, loops, out, emitted, writer,
                 callerGhost, marks, ended>>
StartLock(t) ==
  /\ pc[t] = "start_lock"
  /\ Acquire(Caller(t))
  /\ pc' = [pc EXCEPT ![t] = "start_shift"]
  /\ UNCHANGED <<tasks, SPINNING, call, local, loops, out, emitted, writer,
                 callerGhost, marks, ended>>

\* for task in tasks.iter_mut() { task.row_offset += 1 }
ShiftedTwice(ts) == [i \in 1..Len(ts) |-> [row_offset |-> ts[i].row_offset + 2]]
Unshifted(ts) == ts
Shifted(ts) == [i \in 1..Len(ts) |-> [row_offset |-> ts[i].row_offset + 1]]

\* if tasks.len() > 0 { ...; println!() }
StartShift(t) ==
  /\ pc[t] = "start_shift"
  /\ IF Len(tasks) > 0
     THEN /\ tasks' = Shifted(tasks)
          /\ Write(Caller(t), StartNewlineBytes)
     ELSE UNCHANGED <<tasks, out, emitted, writer>>
  /\ pc' = [pc EXCEPT ![t] = "start_last"]
  /\ UNCHANGED <<SPINNING, lock, call, local, loops, callerGhost, marks, ended>>

\* if let Some(last_row) = tasks.last().map(|task| task.row_offset) { print!("\x1b[s");
StartLast(t) ==
  /\ pc[t] = "start_last"
  /\ IF Len(tasks) > 0
     THEN /\ local' = [local EXCEPT ![t].last_row = tasks[Len(tasks)].row_offset]
          /\ Write(Caller(t), <<SaveCursor>>)
          /\ pc' = [pc EXCEPT ![t] = "start_branch"]
     ELSE /\ pc' = [pc EXCEPT ![t] = "start_push"]
          /\ UNCHANGED <<local, out, emitted, writer>>
  /\ UNCHANGED <<tasks, SPINNING, lock, call, loops, callerGhost, marks, ended>>

\* if last_row > 1 { print!("\x1b[{}A\x1b[{}G<T_RIGHT>", ...) }
StartBranch(t) ==
  /\ pc[t] = "start_branch"
  /\ IF local[t].last_row > 1
     THEN Write(Caller(t), StartBranchBytes(local[t].last_row, Len(tasks)))
     ELSE UNCHANGED <<out, emitted, writer>>
  /\ pc' = [pc EXCEPT ![t] = "start_vert"]
  /\ UNCHANGED <<tasks, SPINNING, lock, call, local, loops, callerGhost, marks, ended>>

\* for _ in 1..last_row { print!("\x1b[1D\x1b[1B<VERT>") }
StartVert(t) ==
  /\ pc[t] = "start_vert"
  /\ IF local[t].last_row > 1
     THEN Write(Caller(t), StartVertBytes(local[t].last_row))
     ELSE UNCHANGED <<out, emitted, writer>>
  /\ pc' = [pc EXCEPT ![t] = "start_restore"]
  /\ UNCHANGED <<tasks, SPINNING, lock, call, local, loops, callerGhost, marks, ended>>

\* print!("\x1b[u"); }
StartRestore(t) ==
  /\ pc[t] = "start_restore"
  /\ Write(Caller(t), <<RestoreCursor>>)
  /\ pc' = [pc EXCEPT ![t] = "start_push"]
  /\ UNCHANGED <<tasks, SPINNING, lock, call, local, loops, callerGhost, marks, ended>>

\* tasks.push(Task { row_offset: 0 });
StartPush(t) ==
  /\ pc[t] = "start_push"
  /\ tasks' = Append(tasks, [row_offset |-> 0])
  /\ pc' = [pc EXCEPT ![t] = "start_indent"]
  /\ UNCHANGED <<SPINNING, lock, call, local, loops, out, emitted, writer,
                 callerGhost, marks, ended>>

\* if tasks.len() > 1 { print!("{}", " ".repeat(...) + "<CORNER><HORIZ> ") }
StartIndent(t) ==
  /\ pc[t] = "start_indent"
  /\ IF Len(tasks) > 1
     THEN Write(Caller(t), StartIndentBytes(Len(tasks)))
     ELSE UNCHANGED <<out, emitted, writer>>
  /\ pc' = [pc EXCEPT ![t] = "start_msg"]
  /\ UNCHANGED <<tasks, SPINNING, lock, call, local, loops, callerGhost, marks, ended>>

\* print!("\x1b[33;1m-\x1b[0m {message}");
StartMsg(t) ==
  /\ pc[t] = "start_msg"
  /\ Write(Caller(t), StartMessageBytes(call[t].message))
  /\ marks' = Append(marks, FirstTextCell(Shown(out), StartMessageBytes(call[t].message)))
  /\ pc' = [pc EXCEPT ![t] = "start_flush"]
  /\ UNCHANGED <<tasks, SPINNING, lock, call, local, loops, callerGhost, ended>>

\* _ = io::stdout().flush();
StartFlush(t) ==
  /\ pc[t] = "start_flush"
  /\ out' = StdoutFlush(out)
  /\ pc' = [pc EXCEPT ![t] = "start_cas"]
  /\ UNCHANGED <<tasks, SPINNING, lock, call, local, loops, emitted, writer,
                 callerGhost, marks, ended>>

\* SPINNING.compare_exchange(false, true, Acquire, Relaxed) == Ok(false)
CasAlwaysWins(flag) == TRUE
CasWins(flag) == flag = FALSE

StartCas(t) ==
  /\ pc[t] = "start_cas"
  /\ IF CasWins(SPINNING)
     THEN /\ SPINNING' = TRUE
          /\ pc' = [pc EXCEPT ![t] = "start_spawn"]
     ELSE /\ pc' = [pc EXCEPT ![t] = "start_return"]
          /\ UNCHANGED SPINNING
  /\ UNCHANGED <<tasks, lock, call, local, loops, out, emitted, writer,
                 callerGhost, marks, ended>>

\* thread::spawn(spin): the new thread starts with spinner = '-'.
StartSpawn(t) ==
  /\ pc[t] = "start_spawn"
  /\ \E k \in LoopIds :
       /\ ~Alive(k)
       /\ \A j \in LoopIds : j < k => Alive(j)
       /\ loops' = [loops EXCEPT ![k] = [NoLoop EXCEPT !.pc = "spin_lock"]]
  /\ pc' = [pc EXCEPT ![t] = "start_return"]
  /\ UNCHANGED <<tasks, SPINNING, lock, call, local, out, emitted, writer,
                 callerGhost, marks, ended>>

\* The function returns: the guard is dropped.
StartReturn(t) ==
  /\ pc[t] = "start_return"
  /\ Release
  /\ Quiet
  /\ pc' = [pc EXCEPT ![t] = "idle"]
  /\ call' = [call EXCEPT ![t] = NoCall]
  /\ local' = [local EXCEPT ![t] = NoLocal]
  /\ UNCHANGED <<tasks, SPINNING, loops, out, callerGhost, marks, ended>>

\* --------------------------------------------------------- __end_task__
\* let mut tasks = TASKS.lock().unwrap();
EndLock(t) ==
  /\ pc[t] = "end_lock"
  /\ Acquire(Caller(t))
  /\ pc' = [pc EXCEPT ![t] = "end_pop"]
  /\ UNCHANGED <<tasks, SPINNING, call, local, loops, out, emitted, writer,
                 callerGhost, marks, ended>>

\* tasks.pop(): the Vec without its last element.
PoppedFirst(ts) == Tail(ts)
PoppedPeek(ts) == ts
Popped(ts) == SubSeq(ts, 1, Len(ts) - 1)

\* if let Some(Task {row_offset: row}) = tasks.pop() { let column = ...; } else { ... }
EndPop(t) ==
  /\ pc[t] = "end_pop"
  /\ IF Len(tasks) > 0
     THEN /\ tasks' = Popped(tasks)
          /\ local' = [local EXCEPT ![t].row = tasks[Len(tasks)].row_offset,
                                    ![t].column = EndColumn(Len(tasks'))]
          /\ ended' = [mark |-> IF marks = <<>> THEN NoCell ELSE marks[Len(marks)],
                       glyph |-> NoCell]
          /\ marks' = IF marks = <<>> THEN marks ELSE SubSeq(marks, 1, Len(marks) - 1)
          /\ pc' = [pc EXCEPT ![t] = "end_save"]
          /\ UNCHANGED nPlain
     ELSE /\ pc' = [pc EXCEPT ![t] = "end_plain"]
          /\ nPlain' = nPlain + 1
          /\ UNCHANGED <<tasks, local, marks, ended>>
  /\ UNCHANGED <<SPINNING, lock, call, loops, out, emitted, writer, nBegin, nEnd>>

\* print!("\x1b[s");
EndSave(t) ==
  /\ pc[t] = "end_save"
  /\ Write(Caller(t), <<SaveCursor>>)
  /\ pc' = [pc EXCEPT ![t] = "end_up"]
  /\ UNCHANGED <<tasks, SPINNING, lock, call, local, loops, callerGhost, marks, ended>>

\* if row > 0 { print!("\x1b[{row}A"); }
EndUp(t) ==
  /\ pc[t] = "end_up"
  /\ IF local[t].row > 0
     THEN Write(Caller(t), EndUpBytes(local[t].row))
     ELSE UNCHANGED <<out, emitted, writer>>
  /\ pc' = [pc EXCEPT ![t] = "end_write"]
  /\ UNCHANGED <<tasks, SPINNING, lock, call, local, loops, callerGhost, marks, ended>>

\* print!("\x1b[{column}G{symbol} \x1b[K{message}");
EndWrite(t) ==
  /\ pc[t] = "end_write"
  /\ Write(Caller(t), EndWriteBytes(local[t].column, call[t].fn, call[t].message))
  /\ ended' = [ended EXCEPT !.glyph =
                 FirstTextCell(Shown(out),
                               EndWriteBytes(local[t].column, call[t].fn, call[t].message))]
  /\ pc' = [pc EXCEPT ![t] = "end_restore"]
  /\ UNCHANGED <<tasks, SPINNING, lock, call, local, loops, callerGhost, marks>>

\* if row != 0 { print!("\x1b[u") }
EndRestore(t) ==
  /\ pc[t] = "end_restore"
  /\ IF local[t].row # 0
     THEN Write(Caller(t), <<RestoreCursor>>)
     ELSE UNCHANGED <<out, emitted, writer>>
  /\ pc' = [pc EXCEPT ![t] = "end_newline"]
  /\ UNCHANGED <<tasks, SPINNING, lock, call, local, loops, callerGhost, marks, ended>>

\* if tasks.len() == 0 { println!(); }
EndNewlineAlways(t) ==
  /\ pc[t] = "end_newline"
  /\ Write(Caller(t), <<Nl>>)
  /\ pc' = [pc EXCEPT ![t] = "end_flush"]
  /\ UNCHANGED <<tasks, SPINNING, lock, call, local, loops, callerGhost, marks, ended>>
EndNewline(t) ==
  /\ pc[t] = "end_newline"
  /\ IF Len(tasks) = 0
     THEN Write(Caller(t), <<Nl>>)
     ELSE UNCHANGED <<out, emitted, writer>>
  /\ pc' = [pc EXCEPT ![t] = "end_flush"]
  /\ UNCHANGED <<tasks, SPINNING, lock, call, local, loops, callerGhost, marks, ended>>

\* _ = io::stdout().flush();
EndFlush(t) ==
  /\ pc[t] = "end_flush"
  /\ out' = StdoutFlush(out)
  /\ pc' = [pc EXCEPT ![t] = "end_return"]
  /\ UNCHANGED <<tasks, SPINNING, lock, call, local, loops, emitted, writer,
                 callerGhost, marks, ended>>

\* println!("{symbol} {message}");
EndPlain(t) ==
  /\ pc[t] = "end_plain"
  /\ Write(Caller(t), EndPlainBytes(call[t].fn, call[t].message))
  /\ pc' = [pc EXCEPT ![t] = "end_return"]
  /\ UNCHANGED <<tasks, SPINNING, lock, call, local, loops, callerGhost, marks, ended>>

\* The function returns: the guard is dropped.
EndReturn(t) ==
  /\ pc[t] = "end_return"
  /\ Release
  /\ Quiet
  /\ pc' = [pc EXCEPT ![t] = "idle"]
  /\ call' = [call EXCEPT ![t] = NoCall]
  /\ local' = [local EXCEPT ![t] = NoLocal]
  /\ ended' = NoEnded
  /\ UNCHANGED <<tasks, SPINNING, loops, out, callerGhost, marks>>

\* ------------------------------------------------------------------ spin
callerState == <<pc, call, local, callerGhost, marks, ended>>

\* loop { let tasks = TASKS.lock().unwrap();
SpinLock(k) ==
  /\ loops[k].pc = "spin_lock"
  /\ Acquire(Spinner(k))
  /\ loops' = [loops EXCEPT ![k].pc = "spin_check"]
  /\ UNCHANGED <<tasks, SPINNING, out, emitted, writer, callerState>>

\* if tasks.len() == 0
LoopExitsNever(ts) == Len(ts) < 0
LoopExits(ts) == Len(ts) = 0

\* if tasks.len() == 0 { break; }  (the guard is dropped on the way out)
\* let mut column = 1;  for Task { row_offset: row } in tasks.iter() {
SpinCheck(k) ==
  /\ loops[k].pc = "spin_check"
  /\ IF LoopExits(tasks)
     THEN /\ Release
          /\ loops' = [loops EXCEPT ![k].pc = "spin_store"]
     ELSE /\ loops' = [loops EXCEPT ![k].pc = "spin_save", ![k].column = 1, ![k].i = 1,
                                     ![k].before = Shown(out)]
          /\ UNCHANGED lock
  /\ UNCHANGED <<tasks, SPINNING, out, emitted, writer, callerState>>

\* print!("\x1b[s");
SpinSave(k) ==
  /\ loops[k].pc = "spin_save"
  /\ Write(Spinner(k), <<SaveCursor>>)
  /\ loops' = [loops EXCEPT ![k].pc = "spin_up"]
  /\ UNCHANGED <<tasks, SPINNING, lock, callerState>>

\* if *row > 0 { print!("\x1b[{row}A ") }
SpinUp(k) ==
  /\ loops[k].pc = "spin_up"
  /\ IF loops[k].i <= Len(tasks) /\ tasks[loops[k].i].row_offset > 0
     THEN Write(Spinner(k), SpinUpBytes(tasks[loops[k].i].row_offset))
     ELSE UNCHANGED <<out, emitted, writer>>
  /\ loops' = [loops EXCEPT ![k].pc = "spin_paint"]
  /\ UNCHANGED <<tasks, SPINNING, lock, callerState>>

\* print!("\x1b[{column}G\x1b[33;1m{spinner}\x1b[0m\x1b[u"); column += 5; }
SpinPaint(k) ==
  /\ loops[k].pc = "spin_paint"
  /\ Write(Spinner(k), SpinPaintBytes(loops[k].column, loops[k].spinner))
  /\ loops' = [loops EXCEPT ![k].column = loops[k].column + IndentStep,
                            ![k].i = loops[k].i + 1,
                            ![k].pc = IF loops[k].i + 1 <= Len(tasks)
                                      THEN "spin_save" ELSE "spin_flush"]
  /\ UNCHANGED <<tasks, SPINNING, lock, callerState>>

\* _ = io::stdout().flush();
SpinFlush(k) ==
  /\ loops[k].pc = "spin_flush"
  /\ out' = StdoutFlush(out)
  /\ loops' = [loops EXCEPT ![k].pc = "spin_advance"]
  /\ UNCHANGED <<tasks, SPINNING, lock, emitted, writer, callerState>>

\* spinner = match spinner { ... };
SpinAdvance(k) ==
  /\ loops[k].pc = "spin_advance"
  /\ loops' = [loops EXCEPT ![k].spinner = NextSpinner(loops[k].spinner),
                            ![k].pc = "spin_drop"]
  /\ UNCHANGED <<tasks, SPINNING, lock, out, emitted, writer, callerState>>

\* drop(tasks);
SpinDropKept(k) ==
  /\ loops[k].pc = "spin_drop"
  /\ Quiet
  /\ loops' = [loops EXCEPT ![k].pc = "spin_sleep", ![k].column = 0, ![k].i = 0,
                            ![k].before = NoTerm]
  /\ UNCHANGED <<tasks, SPINNING, lock, out, callerState>>
SpinDrop(k) ==
  /\ loops[k].pc = "spin_drop"
  /\ Release
  /\ Quiet
  /\ loops' = [loops EXCEPT ![k].pc = "spin_sleep", ![k].column = 0, ![k].i = 0,
                            ![k].before = NoTerm]
  /\ UNCHANGED <<tasks, SPINNING, out, callerState>>

\* thread::sleep(Duration::from_millis(80)); }
SpinSleep(k) ==
  /\ loops[k].pc = "spin_sleep"
  /\ loops' = [loops EXCEPT ![k].pc = "spin_lock"]
  /\ UNCHANGED <<tasks, SPINNING, lock, out, emitted, writer, callerState>>

\* SPINNING.store(false, Ordering::Relaxed);  and the thread ends.
SpinStore(k) ==
  /\ loops[k].pc = "spin_store"
  /\ SPINNING' = FALSE
  /\ loops' = [loops EXCEPT ![k] = NoLoop]
  /\ UNCHANGED <<tasks, lock, out, emitted, writer, callerState>>

\* ---------------------------------------------------------- specifications
StartStep(t) ==
  \/ StartLock(t) \/ StartShift(t) \/ StartLast(t) \/ StartBranch(t) \/ StartVert(t)
  \/ StartRestore(t) \/ StartPush(t) \/ StartIndent(t) \/ StartMsg(t) \/ StartFlush(t)
  \/ StartCas(t) \/ StartSpawn(t) \/ StartReturn(t)

EndStep(t) ==
  \/ EndLock(t) \/ EndPop(t) \/ EndSave(t) \/ EndUp(t) \/ EndWrite(t) \/ EndRestore(t)
  \/ EndNewline(t) \/ EndFlush(t) \/ EndPlain(t) \/ EndReturn(t)

SpinStep(k) ==
  \/ SpinLock(k) \/ SpinCheck(k) \/ SpinSave(k) \/ SpinUp(k) \/ SpinPaint(k)
  \/ SpinFlush(k) \/ SpinAdvance(k) \/ SpinDrop(k) \/ SpinSleep(k) \/ SpinStore(k)

\* Any threads of the application calling the macros in any order.
Next ==
  \/ /\ nBegin + nEnd < MaxCalls
     /\ \E t \in Callers, m \in Msgs : CallStart(t, m)
  \/ /\ nBegin + nEnd < MaxCalls
     /\ \E t \in Callers, e \in EndCalls : CallEnd(t, e[1], e[2])
  \/ \E t \in Callers : StartStep(t)
  \/ \E t \in Callers : EndStep(t)
  \/ \E k \in LoopIds : SpinStep(k)

Spec == Init /\ [][Next]_vars

\* Fair scheduling: a thread that can take a step eventually takes one, and a
\* caller waiting for the mutex gets it if it is free again and again.  Inside a
\* call every step is taken holding the mutex, so only one caller at a time has
\* a step other than the acquisition to take.
Fairness ==
  /\ WF_vars(\E t \in Callers : StartStep(t) \/ EndStep(t))
  /\ \A t \in Callers : SF_vars(StartLock(t) \/ EndLock(t))
  /\ WF_vars(\E k \in LoopIds : SpinStep(k))

\* The same application with one message and one outcome (the text does not
\* decide which thread runs), under fair scheduling.
NextFair ==
  \/ /\ nBegin + nEnd < MaxCalls
     /\ \E t \in Callers : CallStart(t, MsgShort)
  \/ /\ nBegin + nEnd < MaxCalls
     /\ \E t \in Callers : CallEnd(t, "pass", MsgShort)
  \/ \E t \in Callers : StartStep(t)
  \/ \E t \in Callers : EndStep(t)
  \/ \E k \in LoopIds : SpinStep(k)

FairSpec == Init /\ [][NextFair]_vars /\ Fairness

\* An application that calls the macros from one thread, in any order.
NextSeq ==
  \/ /\ nBegin + nEnd < MaxSeqCalls
     /\ \E m \in Msgs : CallStart(1, m)
  \/ /\ nBegin + nEnd < MaxSeqCalls
     /\ \E e \in EndCalls : CallEnd(1, e[1], e[2])
  \/ StartStep(1)
  \/ EndStep(1)
  \/ \E k \in LoopIds : SpinStep(k)

SeqSpec == Init /\ [][NextSeq]_vars

\* One thread begins up to MaxDepth nested tasks, then ends them all, innermost
\* first, and makes no further call.
LifoCall ==
  \/ /\ nEnd = 0
     /\ nBegin < MaxDepth
     /\ CallStart(1, MsgShort)
  \/ /\ nEnd < nBegin
     /\ CallEnd(1, "pass", MsgShort)

LifoStep ==
  \/ StartLock(1) \/ StartShift(1) \/ StartLast(1) \/ StartBranch(1) \/ StartVert(1)
  \/ StartRestore(1) \/ StartPush(1) \/ StartIndent(1) \/ StartMsg(1) \/ StartFlush(1)
  \/ StartCas(1) \/ StartSpawn(1) \/ StartReturn(1)
  \/ EndLock(1) \/ EndPop(1) \/ EndSave(1) \/ EndUp(1) \/ EndWrite(1) \/ EndRestore(1)
  \/ EndNewline(1) \/ EndFlush(1) \/ EndReturn(1)

NextLifo == LifoCall \/ LifoStep \/ \E k \in LoopIds : SpinStep(k)

LifoSpec ==
  Init /\ [][NextLifo]_vars /\ WF_vars(LifoStep) /\ WF_vars(\E k \in LoopIds : SpinStep(k))

\* The scenario of spec.md section 8, called by one thread.
Scenario ==
  << <<"start", MsgBuild>>, <<"start", MsgCompile>>,
     <<"pass", MsgCompileDone>>, <<"warn", MsgBuildWarn>> >>

ScenarioCall ==
  /\ nBegin + nEnd < Len(Scenario)
  /\ LET c == Scenario[nBegin + nEnd + 1]
     IN IF c[1] = "start" THEN CallStart(1, c[2]) ELSE CallEnd(1, c[1], c[2])

ScenarioStep ==
  \/ StartLock(1) \/ StartShift(1) \/ StartLast(1) \/ StartBranch(1) \/ StartVert(1)
  \/ StartRestore(1) \/ StartPush(1) \/ StartIndent(1) \/ StartMsg(1) \/ StartFlush(1)
  \/ StartCas(1) \/ StartSpawn(1) \/ StartReturn(1)
  \/ EndLock(1) \/ EndPop(1) \/ EndSave(1) \/ EndUp(1) \/ EndWrite(1) \/ EndRestore(1)
  \/ EndNewline(1) \/ EndFlush(1) \/ EndReturn(1)

NextScenario == ScenarioCall \/ ScenarioStep \/ \E k \in LoopIds : SpinStep(k)

ScenarioSpec == Init /\ [][NextScenario]_vars

\* One thread begins a parent task and then MaxSiblings children under it, ending
\* each child before it begins the next, and at last ends the parent.
SiblingCall ==
  /\ nBegin + nEnd < 2 * MaxSiblings + 2
  /\ IF nBegin + nEnd = 0 \/ ((nBegin + nEnd) % 2 = 1 /\ nBegin + nEnd < 2 * MaxSiblings)
     THEN CallStart(1, MsgShort)
     ELSE CallEnd(1, "pass", MsgShort)

NextSibling == SiblingCall \/ LifoStep \/ \E k \in LoopIds : SpinStep(k)

SiblingSpec == Init /\ [][NextSibling]_vars
\* ------------------------------------------------------------------ claims
\* No __start_task__ or __end_task__ call is in progress.
Quiescent == \A t \in Callers : pc[t] = "idle"

StartPcs == {"start_lock", "start_shift", "start_last", "start_branch", "start_vert",
             "start_restore", "start_push", "start_indent", "start_msg", "start_flush",
             "start_cas", "start_spawn", "start_return"}

\* C1: under every interleaving of start calls, end calls and loop steps, at most
\* one spin thread (spawned, final flag clear not yet executed) exists.
AtMostOneLoop == Cardinality(AliveLoops) <= 1

\* C1 witness: two start calls have run concurrently, the second has passed its
\* compare-and-set while the first is still inside the call, and one loop exists.
TwoBeginsOneLoop ==
  \E t1, t2 \in Callers :
    /\ t1 # t2
    /\ pc[t1] = "start_return"
    /\ pc[t2] = "start_lock"
    /\ nBegin = 2
    /\ SPINNING
    /\ Cardinality(AliveLoops) = 1

\* C2: a start call that has returned leaves a live loop for as long as the stack
\* stays non-empty: whenever no call is in progress and a task is open, a spin
\* thread exists to repaint it.
OpenTasksHaveLoop == (Quiescent /\ Len(tasks) > 0) => AliveLoops # {}

\* C3: a thread has begun N tasks and ended them all, innermost first.
LifoDone == nBegin > 0 /\ nEnd = nBegin /\ pc[1] = "idle"

\* C3: after N nested begins and N ends in LIFO order the stack is empty, and the
\* loop then sees the empty stack, exits, and leaves SPINNING false for good.
LifoLeavesLoopStopped ==
  /\ [](LifoDone => tasks = <<>>)
  /\ (LifoDone ~> [](SPINNING = FALSE /\ AliveLoops = {}))

\* C3 witness: MaxDepth tasks were begun and ended, and the loop has stopped.
LifoStopped ==
  /\ LifoDone
  /\ nBegin = MaxDepth
  /\ tasks = <<>>
  /\ SPINNING = FALSE
  /\ AliveLoops = {}

\* C4 as stated: at every quiescent point the stack length is the number of
\* start calls minus the number of end calls.
LengthIsBeginsMinusEnds == Quiescent => Len(tasks) = nBegin - nEnd

\* C4 amended: at every quiescent point the stack length is the number of start
\* calls minus the number of end calls that found a task to end.
LengthIsBeginsMinusPops == Quiescent => Len(tasks) = nBegin - (nEnd - nPlain)

\* C4 witness: a quiescent point after an end call that found no task and an end
\* call that ended one.
QuiescentAfterBothEnds ==
  /\ Quiescent
  /\ nPlain >= 1
  /\ nEnd > nPlain
  /\ nBegin >= 1

\* Caller t is in an end call that popped a task and has written its outcome.
WroteOutcome(t) ==
  /\ pc[t] \in {"end_restore", "end_newline", "end_flush", "end_return"}
  /\ local[t].row >= 0

\* C5: an end call on a non-empty stack writes its glyph at the very cell where
\* the begin call of the task it ends drew the "-" marker: on that task's row, at
\* column (depth after the pop) * 5 + 1, and on the row of no task still open.
OutcomeReplacesMarker ==
  \A t \in Callers :
    WroteOutcome(t) =>
      /\ ended.glyph = ended.mark
      /\ ended.glyph[2] = Len(tasks) * IndentStep + 1
      /\ \A i \in 1..Len(marks) : marks[i][1] # ended.glyph[1]

\* C5 witness: a nested task is ended while its parent stays open: the glyph is
\* on the second row at column 6, the parent's marker on the first row.
OutcomeWrittenNested ==
  \E t \in Callers :
    /\ pc[t] = "end_restore"
    /\ Len(tasks) = 1
    /\ marks = << <<1, 1>> >>
    /\ ended.glyph = <<2, IndentStep + 1>>

\* C6: after N begins from the empty stack and no end call, the i-th task has
\* row_offset N - i; and every begin call raises each task's row_offset by exactly
\* one (when tasks are open) and appends the new task with row_offset 0.
OffsetsCountDown ==
  /\ []((Quiescent /\ nEnd = 0) =>
          /\ Len(tasks) = nBegin
          /\ \A i \in 1..Len(tasks) : tasks[i].row_offset = nBegin - i)
  /\ [][\A t \in Callers :
          /\ (pc[t] = "start_shift" /\ pc'[t] = "start_last") =>
                /\ Len(tasks') = Len(tasks)
                /\ \A i \in 1..Len(tasks) : tasks'[i].row_offset = tasks[i].row_offset + 1
          /\ (pc[t] = "start_push" /\ pc'[t] = "start_indent") =>
                tasks' = Append(tasks, [row_offset |-> 0])
          /\ (/\ pc'[t] # pc[t]
              /\ pc[t] \in StartPcs
              /\ pc[t] \notin {"start_shift", "start_push"}) =>
                tasks' = tasks]_vars

\* C6 witness: three tasks begun, none ended: offsets 2, 1, 0.
ThreeBegun ==
  /\ Quiescent
  /\ nEnd = 0
  /\ nBegin = 3
  /\ tasks = <<[row_offset |-> 2], [row_offset |-> 1], [row_offset |-> 0]>>

\* Caller t is in an end call that found no task and has printed its line.
PrintedPlain(t) == pc[t] = "end_return" /\ local[t].row = -1

\* The printed characters of a byte sequence.
TextOf(cmds) ==
  LET texts == {i \in 1..Len(cmds) : cmds[i].op = "text"}
      nth(k) == CHOOSE i \in texts : Cardinality({j \in texts : j <= i}) = k
  IN [k \in 1..Cardinality(texts) |-> cmds[nth(k)].ch]

\* C7: an end call on the empty stack writes one line, the glyph, a blank and the
\* message, with no cursor movement, leaves the stack empty, and none of the steps
\* of the call changes SPINNING or the set of spin threads.
PlainEndIsOneLine ==
  /\ [](\A t \in Callers :
          PrintedPlain(t) =>
            /\ \A i \in 1..Len(emitted) : emitted[i].op \notin MovementOps
            /\ {i \in 1..Len(emitted) : emitted[i].op = "nl"} = {Len(emitted)}
            /\ TextOf(emitted) = <<Glyph(call[t].fn), " ">> \o call[t].message
            /\ out.buf = <<>>
            /\ out.term.col = 1
            /\ RowAt(out.term.screen, out.term.row - 1)
                 = <<Glyph(call[t].fn), " ">> \o call[t].message
            /\ tasks = <<>>)
  /\ [][\A t \in Callers :
          (/\ pc'[t] # pc[t]
           /\ \/ pc[t] = "end_pop" /\ Len(tasks) = 0
              \/ pc[t] = "end_plain"
              \/ PrintedPlain(t)) =>
             (SPINNING' = SPINNING /\ loops' = loops /\ tasks' = tasks)]_vars

\* C7 witness: a plain line was printed while the flag was still set.
PlainEndWhileSpinning ==
  \E t \in Callers : PrintedPlain(t) /\ SPINNING /\ AliveLoops # {} /\ emitted # <<>>

\* Thread th is between a cursor save it wrote and the matching restore.
CallerSaved(t) ==
  \/ pc[t] \in {"start_branch", "start_vert", "start_restore"}
  \/ pc[t] \in {"end_up", "end_write"}
  \/ pc[t] = "end_restore" /\ local[t].row # 0
LoopSaved(k) == loops[k].pc \in {"spin_up", "spin_paint"}

\* C8: whoever wrote to the terminal last inside a call or a tick holds the TASKS
\* lock, and between a thread's cursor save and its restore the last write is its
\* own: no other thread has written or saved the cursor in between.
WritesUnderLock ==
  /\ writer \in {Free, lock}
  /\ \A t \in Callers : CallerSaved(t) => (lock = Caller(t) /\ writer = Caller(t))
  /\ \A k \in LoopIds : LoopSaved(k) => (lock = Spinner(k) /\ writer = Spinner(k))

\* C8 witness: a tick is between its save and its restore while a start call and
\* an end call wait for the lock.
TickSavedWhileCallersWait ==
  \E k \in LoopIds, t1, t2 \in Callers :
    /\ loops[k].pc = "spin_paint"
    /\ pc[t1] = "start_lock"
    /\ pc[t2] = "end_lock"

\* C9: under fair scheduling every start call and every end call returns.
EveryCallReturns == \A t \in Callers : (pc[t] # "idle") ~> (pc[t] = "idle")

\* C9 witness: both callers wait for the lock while a spin thread holds it.
CallersWaitForLoop ==
  \E k \in LoopIds :
    /\ lock = Spinner(k)
    /\ \A t \in Callers : pc[t] \in {"start_lock", "end_lock"}

\* The four calls of the scenario have returned.
ScenarioDone == nBegin + nEnd = Len(Scenario) /\ pc[1] = "idle"

\* Row r of the screen shows glyph, a blank and message at its end.
RowEndsWith(r, glyph, message) ==
  LET line == RowAt(out.term.screen, r)
      want == <<glyph, " ">> \o message
  IN /\ Len(line) >= Len(want)
     /\ SubSeq(line, Len(line) - Len(want) + 1, Len(line)) = want

\* C10 as stated: at the end of the scenario "compile done" with the success glyph
\* is on a row above "build finished with warnings" with the warning glyph.
CompileDoneAboveBuild ==
  ScenarioDone =>
    /\ tasks = <<>>
    /\ \E r1, r2 \in 1..Len(out.term.screen) :
         /\ r1 < r2
         /\ RowEndsWith(r1, "CHECK", MsgCompileDone)
         /\ RowEndsWith(r2, "WARN", MsgBuildWarn)

\* C10 amended: "build finished with warnings" with the warning glyph is the first
\* row, "compile done" with the success glyph, indented under it, is the row below,
\* the stack is empty and the cursor is at the start of the row after them.
BuildAboveCompileDone ==
  ScenarioDone =>
    /\ tasks = <<>>
    /\ out.buf = <<>>
    /\ RowAt(out.term.screen, 1) = <<"WARN", " ">> \o MsgBuildWarn
    /\ RowAt(out.term.screen, 2)
         = <<" ", " ", "CORNER", "HORIZ", " ", "CHECK", " ">> \o MsgCompileDone
    /\ Len(out.term.screen) = 2
    /\ out.term.row = 3
    /\ out.term.col = 1

\* C10 witness: the scenario has run to its end and the loop has stopped.
ScenarioOver == ScenarioDone /\ AliveLoops = {} /\ Len(out.term.screen) = 2


\* C11: whenever the TASKS lock is free, every open task's row_offset is the number
\* of rows from the row its line was drawn on down to the row the cursor rests on.
OffsetsAreRowsAboveCursor ==
  lock = Free =>
    /\ out.buf = <<>>
    /\ Len(marks) = Len(tasks)
    /\ \A i \in 1..Len(tasks) : tasks[i].row_offset = out.term.row - marks[i][1]

\* C11 witness: an inner task has ended and a sibling has begun after it; the lock
\* is free, the parent's line is two rows above the cursor and the sibling's on it.
SiblingBegunLockFree ==
  /\ lock = Free
  /\ Quiescent
  /\ nBegin = 3
  /\ nEnd = 1
  /\ Len(tasks) = 2
  /\ tasks[1].row_offset = 2
  /\ marks[1][1] = 1
  /\ out.term.row = 3

\* C12: in every state the row_offsets, read outermost to innermost, are
\* non-negative and strictly decreasing.
OffsetsStrictlyDecrease ==
  /\ \A i \in 1..Len(tasks) : tasks[i].row_offset >= 0
  /\ \A i, j \in 1..Len(tasks) : i < j => tasks[i].row_offset > tasks[j].row_offset

\* C12 witness: two open tasks whose offsets differ by more than one, a line of an
\* ended task lying between their lines.
OffsetsWithGap ==
  /\ Len(tasks) = 2
  /\ tasks[1].row_offset = 2
  /\ tasks[2].row_offset = 0


EndPcs == {"end_lock", "end_pop", "end_save", "end_up", "end_write", "end_restore",
           "end_newline", "end_flush", "end_plain", "end_return"}

\* Some spin thread takes the step (a spawn also moves the spawning caller).
LoopSteps == pc' = pc /\ \E k \in LoopIds : loops'[k] # loops[k]

\* C13: the stack changes only by the increment of every row_offset before a push,
\* by the push of a record with row_offset 0, and by an end call removing the last
\* record with every remaining record and their order unchanged; no other step of
\* an end call and no step of the animation loop changes any record.
OnlyPushAndPopChangeTasks ==
  [][ /\ tasks' # tasks =>
           \E t \in Callers :
             /\ pc'[t] # pc[t]
             /\ \/ /\ pc[t] = "start_shift"
                   /\ Len(tasks') = Len(tasks)
                   /\ \A i \in 1..Len(tasks) :
                        tasks'[i].row_offset = tasks[i].row_offset + 1
                \/ /\ pc[t] = "start_push"
                   /\ Len(tasks') = Len(tasks) + 1
                   /\ tasks'[Len(tasks')].row_offset = 0
                   /\ \A i \in 1..Len(tasks) : tasks'[i] = tasks[i]
                \/ /\ pc[t] = "end_pop"
                   /\ Len(tasks') = Len(tasks) - 1
                   /\ \A i \in 1..Len(tasks') : tasks'[i] = tasks[i]
      /\ \A t \in Callers :
           (pc[t] \in EndPcs \ {"end_pop"} /\ pc'[t] # pc[t]) => tasks' = tasks
      /\ LoopSteps => tasks' = tasks
    ]_vars

\* C13 witness: an end call has just removed the innermost of two records while the
\* loop is alive; the remaining record still has its row_offset of 1.
PoppedInnerOfTwo ==
  \E t \in Callers :
    /\ pc[t] = "end_save"
    /\ local[t].row = 0
    /\ Len(tasks) = 1
    /\ tasks[1].row_offset = 1
    /\ AliveLoops # {}


\* C14: SPINNING goes from true to false only in the last step of a spin thread,
\* which the thread reaches only from finding the stack empty and takes once, and
\* no step of a begin or end call clears it; it goes from false to true only in the
\* compare-and-set of a begin call, and a begin call whose compare-and-set
\* succeeded spawns exactly one spin thread as its next step.
FlagChangesOnlyByCasAndLoop ==
  [][ /\ (SPINNING /\ ~SPINNING') =>
           /\ pc' = pc
           /\ \E k \in LoopIds : loops[k].pc = "spin_store" /\ loops'[k] = NoLoop
      /\ \A k \in LoopIds :
           (loops'[k].pc = "spin_store" /\ loops[k].pc # "spin_store") =>
             /\ loops[k].pc = "spin_check"
             /\ Len(tasks) = 0
      /\ \A k \in LoopIds :
           (loops[k].pc = "spin_store" /\ loops'[k] # loops[k]) =>
             /\ SPINNING
             /\ ~SPINNING'
             /\ loops'[k] = NoLoop
      /\ (~SPINNING /\ SPINNING') =>
           \E t \in Callers : pc[t] = "start_cas" /\ pc'[t] = "start_spawn"
      /\ \A t \in Callers :
           (pc'[t] = "start_spawn" /\ pc[t] # "start_spawn") =>
             /\ pc[t] = "start_cas"
             /\ ~SPINNING
             /\ SPINNING'
      /\ \A t \in Callers :
           (pc[t] = "start_spawn" /\ pc'[t] # pc[t]) =>
             /\ SPINNING'
             /\ Cardinality(AliveLoops') = Cardinality(AliveLoops) + 1
    ]_vars

\* C14 witness: a loop has cleared the flag after the stack emptied, and a later
\* begin call has set it again and is about to spawn the next loop.
FlagSetAgainAfterStop ==
  \E t \in Callers :
    /\ pc[t] = "start_spawn"
    /\ nEnd >= 1
    /\ SPINNING
    /\ AliveLoops = {}


\* C15: a thread that is about to flush standard output, in a begin call, in an end
\* call or in a tick of the loop, does not hold the TASKS lock.
FlushOutsideLock ==
  /\ \A t \in Callers :
       pc[t] \in {"start_flush", "end_flush"} => lock # Caller(t)
  /\ \A k \in LoopIds :
       loops[k].pc = "spin_flush" => lock # Spinner(k)

\* C16: a spin thread that is in its sleep between two ticks does not hold the
\* TASKS lock.
SleepOutsideLock ==
  \A k \in LoopIds : loops[k].pc = "spin_sleep" => lock # Spinner(k)

\* C16 witness: the loop sleeps after a tick over a non-empty stack while a begin
\* or end call has taken the lock and is at work.
CallerWorksDuringSleep ==
  \E k \in LoopIds, t \in Callers :
    /\ loops[k].pc = "spin_sleep"
    /\ loops[k].spinner # "-"
    /\ lock = Caller(t)
    /\ pc[t] \in {"start_shift", "end_pop"}


\* The cell of the spinner of the open task at stack position i (1-based) when the
\* cursor rests on row crow.
SpinnerCell(i, crow) == <<crow - tasks[i].row_offset, (i - 1) * IndentStep + 1>>

\* C17: when a tick has written and flushed its output, the cursor is where it was
\* when the tick began, and every screen cell that differs from what it showed
\* when the tick began is the spinner cell of an open task.
TickChangesOnlySpinnerCells ==
  \A k \in LoopIds :
    loops[k].pc = "spin_advance" =>
      LET was == loops[k].before
          now == out.term
      IN /\ out.buf = <<>>
         /\ now.row = was.row
         /\ now.col = was.col
         /\ \A r \in 1..Max(Len(now.screen), Len(was.screen)) :
              \A c \in 1..Max(Len(RowAt(now.screen, r)), Len(RowAt(was.screen, r))) :
                CellAt(now.screen, r, c) # CellAt(was.screen, r, c) =>
                  \E i \in 1..Len(tasks) : <<r, c>> = SpinnerCell(i, was.row)


\* C18: the paint of a tick for the task at stack position i (1-based) lands at
\* column 5*(i-1) + 1 of the row row_offset rows above the row the cursor rested on
\* when the tick began, which is the cell where the task's begin call drew its
\* marker; when the tick has flushed, each of these cells shows the spinner glyph.
SpinnerPaintedOnMarker ==
  \A k \in LoopIds :
    /\ loops[k].pc = "spin_paint" =>
         LET i == loops[k].i
             cell == FirstTextCell(Shown(out),
                                   SpinPaintBytes(loops[k].column, loops[k].spinner))
         IN /\ i \in 1..Len(tasks)
            /\ Len(marks) = Len(tasks)
            /\ loops[k].column = IndentStep * (i - 1) + 1
            /\ cell = <<loops[k].before.row - tasks[i].row_offset, loops[k].column>>
            /\ cell = marks[i]
    /\ loops[k].pc = "spin_advance" =>
         \A i \in 1..Len(marks) :
           CellAt(out.term.screen, marks[i][1], marks[i][2]) = loops[k].spinner

\* C18 witness: three nested tasks are open and the tick is about to paint the
\* innermost one, after the two above it, on its marker at column 11.
PaintingThirdOfThree ==
  \E k \in LoopIds :
    /\ loops[k].pc = "spin_paint"
    /\ loops[k].i = 3
    /\ Len(tasks) = 3
    /\ tasks[1].row_offset = 2
    /\ marks[3] = <<3, 2 * IndentStep + 1>>
    /\ loops[k].spinner # "-"


\* No newline among the commands cmds.
NoNl(cmds) == \A j \in 1..Len(cmds) : cmds[j].op # "nl"

\* C20: an end call that popped a task writes no newline before its last write;
\* if it emptied the stack its last write is a newline, which leaves the cursor in
\* column 1 of a row below every row that shows anything; if tasks remain open it
\* writes no newline at all and the cursor stays on the lowest drawn row.
TrailingNewlineIffEmptied ==
  \A t \in Callers :
    /\ pc[t] \in {"end_up", "end_write", "end_restore", "end_newline"} => NoNl(emitted)
    /\ (pc[t] \in {"end_flush", "end_return"} /\ local[t].row >= 0) =>
         LET now == Shown(out)
         IN IF Len(tasks) = 0
            THEN /\ emitted = <<Nl>>
                 /\ now.col = 1
                 /\ now.row > Len(now.screen)
                 /\ pc[t] = "end_return" => out.buf = <<>>
            ELSE /\ NoNl(emitted)
                 /\ now.row = Len(now.screen)

\* C20 witness: an end call has emptied the stack by ending a task whose line was
\* not the bottom-most one (a child's line lies below it) and has flushed.
EmptiedFromAbove ==
  \E t \in Callers :
    /\ pc[t] = "end_return"
    /\ local[t].row >= 1
    /\ Len(tasks) = 0
    /\ Len(out.term.screen) >= 2
    /\ out.term.row = Len(out.term.screen) + 1


\* Characters that stand at the head of a task's line: the marker, the spinner
\* glyphs and the outcome glyphs.
HeadChars == {"-", "\\", "|", "/", "CHECK", "WARN", "CROSS"}

\* Nesting depth of the task whose line is on row r of screen (1 for an outermost
\* task, 0 if the row shows no task line): the line's head is at column
\* (depth - 1) * IndentStep + 1.
DepthOfRow(screen, r) ==
  LET line == RowAt(screen, r)
      heads == {c \in 1..Len(line) : line[c] \in HeadChars}
  IN IF heads = {} THEN 0
     ELSE ((CHOOSE c \in heads : \A d \in heads : c <= d) - 1) \div IndentStep + 1

\* Rows of the direct children drawn under the open task at stack position p.
ChildRows(p) ==
  {r \in (marks[p][1] + 1)..Len(out.term.screen) :
     DepthOfRow(out.term.screen, r) = p + 1}

\* C19: whenever the lock is free, in the connector column of every open task the
\* line of each direct child but the newest shows T_RIGHT, the line of the newest
\* direct child shows CORNER, and VERT stands only on rows of deeper descendants
\* that lie between two direct children.
ConnectorsMarkChildren ==
  lock = Free =>
    \A p \in 1..Len(tasks) :
      LET conn == (p - 1) * IndentStep + 3
          kids == ChildRows(p)
      IN /\ \A r \in kids :
              CellAt(out.term.screen, r, conn)
                = IF \A q \in kids : q <= r THEN "CORNER" ELSE "T_RIGHT"
         /\ \A r \in (marks[p][1] + 1)..Len(out.term.screen) :
              CellAt(out.term.screen, r, conn) = "VERT" =>
                /\ DepthOfRow(out.term.screen, r) > p + 1
                /\ \E q1, q2 \in kids : q1 < r /\ r < q2

====
